---- MODULE Spec2Model ----
(***************************************************************************)
(* The trend dashboard (src/app.py) and the weekly report                  *)
(* (src/make_weekly_report.py) as state machines.                          *)
(*                                                                         *)
(* Strings are TLA+ strings; f-strings and "+" are \o, and character-level *)
(* functions (strip, lower, quote_plus, LIKE) walk them with Head/Tail.    *)
(*                                                                         *)
(* Two specifications:                                                     *)
(*   Spec        - one execution of either script from its first line, as  *)
(*                 written, and the dashboard's reruns;                    *)
(*   SpecCompose - the filter composer, the SQL text, the store's          *)
(*                 evaluation of that text and the weekly queries, applied *)
(*                 to inputs drawn from bounded sets.                      *)
(***************************************************************************)
EXTENDS Integers, Sequences, FiniteSets, TLC

VARIABLES
    script,        \* "app" | "weekly": the script this behaviour runs
    lazyAnn,       \* the interpreter defers annotation evaluation (3.14+) or not
    secrets,       \* st.secrets: name -> [t, v]
    env,           \* os.environ: name -> string
    dbUp,          \* the store answers
    items,         \* the items table
    now,           \* the store's now(), in ticks
    clock,         \* the dashboard host's clock, in seconds
    pc,            \* position in the script
    runs,          \* script runs started so far
    host, port, name, user, pwd_raw, ssl, PGURL, engine,
    cache,         \* st.cache_data of q: <<sql, params>> -> [value, at]
    qlog,          \* the calls of q / fetch_df so far
    checkouts,     \* engine.begin() entered
    released,      \* engine.begin() left
    storeQueries,  \* statements the store executed
    connects,      \* direct psycopg.connect probes
    days, sources, sel_src, qtext, where, params, sql,
    matched,       \* the rows the shared WHERE selects
    kpi, top, by_src, by_day,
    out,           \* what the run has shown or printed, in order
    pdf,           \* the report file on disk
    posts,         \* HTTP requests to the mail API
    exit           \* the process's end: "" while running

envVars == <<script, lazyAnn, secrets, env, dbUp, items, now>>
confVars == <<host, port, name, user, pwd_raw, ssl, PGURL, engine>>
storeVars == <<cache, qlog, checkouts, released, storeQueries, connects>>
filterVars == <<days, sources, sel_src, qtext, where, params, sql>>
resultVars == <<matched, kpi, top, by_src, by_day>>
reportVars == <<pdf, posts, exit>>
vars == <<envVars, confVars, storeVars, filterVars, resultVars, reportVars,
          clock, pc, runs, out>>

(***************************************************************************)
(* Bounds of the model.                                                    *)
(***************************************************************************)
MaxRuns == 2
MaxQLen == 2
MaxTLen == 2
DayLen == 2

(***************************************************************************)
(* Program constants.                                                      *)
(***************************************************************************)
CacheTtl == 300
Days == {1, 7, 14, 30}

(***************************************************************************)
(* Strings.                                                                *)
(***************************************************************************)
Last(s) == SubSeq(s, Len(s), Len(s))

RECURSIVE lstrip(_)
lstrip(s) == IF s # "" /\ Head(s) = " " THEN lstrip(Tail(s)) ELSE s

RECURSIVE rstrip(_)
rstrip(s) == IF s # "" /\ Last(s) = " " THEN rstrip(SubSeq(s, 1, Len(s) - 1)) ELSE s

strip(s) == rstrip(lstrip(s))

StartsWith(s, p) == Len(p) <= Len(s) /\ SubSeq(s, 1, Len(p)) = p

Contains(s, sub) == \E i \in 0..(Len(s) - Len(sub)) : SubSeq(s, i + 1, i + Len(sub)) = sub

\* The first place of sub in s, 0 when there is none.
IndexOf(s, sub) ==
    LET I == {i \in 1..(Len(s) - Len(sub) + 1) : SubSeq(s, i, i + Len(sub) - 1) = sub}
    IN  IF I = {} THEN 0 ELSE CHOOSE i \in I : \A j \in I : i <= j

\* s after / before the first sub (s.partition(sub)).
AfterStr(s, sub) ==
    LET i == IndexOf(s, sub) IN IF i = 0 THEN "" ELSE SubSeq(s, i + Len(sub), Len(s))

BeforeStr(s, sub) ==
    LET i == IndexOf(s, sub) IN IF i = 0 THEN s ELSE SubSeq(s, 1, i - 1)

RECURSIVE Replace(_, _, _)
Replace(s, old, new) ==
    IF s = "" THEN ""
    ELSE IF StartsWith(s, old) THEN new \o Replace(SubSeq(s, Len(old) + 1, Len(s)), old, new)
    ELSE Head(s) \o Replace(Tail(s), old, new)

LowerChar(c) ==
    CASE c = "A" -> "a"
      [] c = "B" -> "b"
      [] OTHER -> c

RECURSIVE lower(_)
lower(s) == IF s = "" THEN "" ELSE LowerChar(Head(s)) \o lower(Tail(s))

Digit(d) == SubSeq("0123456789", d + 1, d + 1)

RECURSIVE IntToStr(_)
IntToStr(n) == IF n < 10 THEN Digit(n) ELSE IntToStr(n \div 10) \o Digit(n % 10)

DigitVal(c) == CHOOSE d \in 0..9 : Digit(d) = c

RECURSIVE StrToInt(_)
StrToInt(s) == IF Len(s) = 1 THEN DigitVal(s) ELSE 10 * StrToInt(SubSeq(s, 1, Len(s) - 1)) + DigitVal(Last(s))

\* urllib.parse.quote_plus: unreserved characters stay, a space is "+", the
\* rest is percent-encoded.
QuoteChar(c) ==
    CASE c = " " -> "+"
      [] c = "@" -> "%40"
      [] c = ":" -> "%3A"
      [] c = "/" -> "%2F"
      [] c = "%" -> "%25"
      [] c = "+" -> "%2B"
      [] OTHER -> c

RECURSIVE quote_plus(_)
quote_plus(s) == IF s = "" THEN "" ELSE QuoteChar(Head(s)) \o quote_plus(Tail(s))

RECURSIVE Strs(_, _)
Strs(chars, n) ==
    IF n = 0 THEN {""}
    ELSE LET shorter == Strs(chars, n - 1)
         IN  shorter \cup {c \o s : c \in chars, s \in {t \in shorter : Len(t) = n - 1}}

(***************************************************************************)
(* Configuration: st.secrets, os.environ, _get.                            *)
(***************************************************************************)
EmptyMap == [x \in {} |-> ""]

Str(s) == [t |-> "str", v |-> s]
Num(n) == [t |-> "int", v |-> n]

\* _get(name, default): the secret when there is one (a number as its digits),
\* else the environment's value or the default; stripped.
Get(n, default) ==
    IF n \in DOMAIN secrets
    THEN LET v == secrets[n] IN strip(IF v.t = "int" THEN IntToStr(v.v) ELSE v.v)
    ELSE strip(IF n \in DOMAIN env THEN env[n] ELSE default)

\* os.environ.get(name) where only its truth value and its text are used:
\* None and "" are both falsy.
EnvGet(n) == IF n \in DOMAIN env THEN env[n] ELSE ""

Or(a, b) == IF a # "" THEN a ELSE b

CredentialsPresentNoPwd(h, u, p) == h # "" /\ u # ""

\* app.py line 24: host and user and pwd_raw
CredentialsPresent(h, u, p) == h # "" /\ u # "" /\ p # ""

AssembleUrl(u, p, h, prt, nm, s) ==
    "postgresql+psycopg://" \o u \o ":" \o quote_plus(p) \o "@" \o h \o ":"
        \o IntToStr(prt) \o "/" \o nm \o "?sslmode=" \o s

ForceDriver(url) ==
    IF Contains(url, "postgresql+psycopg") THEN url
    ELSE Replace(url, "postgresql://", "postgresql+psycopg://")

MissingDbMsg == "st.error: Missing DB_* secrets. Set DB_HOST/DB_USER/DB_PASSWORD in Settings -> Secrets."
MissingUrlMsg == "st.error: PGURL_VIEW/PGURL is empty or not set. Check Streamlit secrets."
DebugHeader == "st.markdown: DB Connection Debug (temporary)"
NameErrorPd == "NameError: name 'pd' is not defined"
NameErrorDatetime == "NameError: name 'datetime' is not defined"
SystemExitMsg == "SystemExit: PGURL_VIEW/PGURL not set"

NoDf == [none |-> TRUE]
NoPdf == [written |-> FALSE]

(***************************************************************************)
(* The items table and the store's evaluation of SQL.                      *)
(***************************************************************************)
T0 == 30 * DayLen + 2

Row(i, t, s, ttl, hb, b, sc) ==
    [ctid |-> i, ts |-> t, source |-> s, title |-> ttl, has_body |-> hb, body |-> b,
     url |-> "https://x/" \o IntToStr(i), trend_score |-> sc]

SourceOf(t) == CASE t % 3 = 0 -> "hn" [] t % 3 = 1 -> "reddit" [] OTHER -> "rss"

CharCode(c) == CASE c = "a" -> 1 [] c = "A" -> 2 [] OTHER -> 3

RECURSIVE StrCode(_)
StrCode(s) == IF s = "" THEN 0 ELSE CharCode(Head(s)) + 4 * StrCode(Tail(s))

\* Rows at, just before and just after every window's edge, and rows whose
\* title or body varies.  ctid is the row's place in the table; trend_score
\* is in units of 0.0001.
WindowRows ==
    {Row(t, t, SourceOf(t), "a", FALSE, "", 1000 * (t % 7) + 5) :
        t \in {T0 - d * DayLen + k : d \in Days, k \in {-1, 0, 1}} \cup {T0, T0 + 1}}

TextRows ==
    {Row(1000 + StrCode(s), T0, "hn", s, FALSE, "", 2500 + Len(s)) :
        s \in Strs({"a", "A", "b"}, MaxTLen)}
    \cup {Row(2000 + StrCode(s), T0, "reddit", "b", TRUE, s, 6005) : s \in {"", "a", "Ab"}}

Fixture == WindowRows \cup TextRows

WindowClause == "ts >= now() - interval :days"
SourceClause == "source = ANY(:src)"
TextClause == "(lower(title) like :q or lower(body) like :q)"
WeeklyClause == "ts >= now() - interval '7 days'"

\* An interval literal or parameter "<n> day" / "<n> days", in ticks.
IntervalTicks(s) == StrToInt(BeforeStr(s, " ")) * DayLen

\* SQL LIKE: % is any run of characters, _ is any one character.
RECURSIVE Like(_, _)
Like(s, p) ==
    IF p = "" THEN s = ""
    ELSE IF Head(p) = "%" THEN Like(s, Tail(p)) \/ (s # "" /\ Like(Tail(s), p))
    ELSE IF Head(p) = "_" THEN s # "" /\ Like(Tail(s), Tail(p))
    ELSE s # "" /\ Head(s) = Head(p) /\ Like(Tail(s), Tail(p))

InList(x, l) == \E i \in 1..Len(l) : l[i] = x

Holds(c, r, prm, t) ==
    CASE c = WindowClause -> r.ts >= t - IntervalTicks(prm["days"])
      [] c = SourceClause -> InList(r.source, prm["src"])
      [] c = TextClause -> \/ Like(lower(r.title), prm["q"])
                           \/ (r.has_body /\ Like(lower(r.body), prm["q"]))
      [] c = WeeklyClause -> r.ts >= t - IntervalTicks("7 days")

Clauses == {WindowClause, SourceClause, TextClause, WeeklyClause}

\* The rows of tbl a statement's WHERE keeps at store time t.
Selected(tbl, stmt, prm, t) ==
    LET present == {c \in Clauses : Contains(stmt, c)}
    IN  {r \in tbl : \A c \in present : Holds(c, r, prm, t)}

RECURSIVE SumScores(_)
SumScores(S) == IF S = {} THEN 0 ELSE LET r == CHOOSE x \in S : TRUE IN r.trend_score + SumScores(S \ {r})

\* count(*)::int, round(avg(trend_score)::numeric, 3): the average is NULL
\* over no rows, else in units of 0.001, halves rounded up.
KpiOf(S) ==
    LET n == Cardinality(S)
    IN  [n_items |-> n,
         avg_null |-> (n = 0),
         avg_score |-> IF n = 0 THEN 0 ELSE (2 * SumScores(S) + 10 * n) \div (20 * n)]

\* r sorts before o under "order by trend_score desc"; rows of equal score
\* stay in table order.
Before(r, o) ==
    \/ r.trend_score > o.trend_score
    \/ (r.trend_score = o.trend_score /\ r.ctid < o.ctid)

Insert(seq, r) ==
    LET k == Cardinality({i \in 1..Len(seq) : Before(seq[i], r)})
    IN  SubSeq(seq, 1, k) \o <<r>> \o SubSeq(seq, k + 1, Len(seq))

RECURSIVE OrderByScore(_)
OrderByScore(S) ==
    IF S = {} THEN <<>>
    ELSE LET r == CHOOSE x \in S : TRUE IN Insert(OrderByScore(S \ {r}), r)

Limit(seq, n) == SubSeq(seq, 1, IF Len(seq) < n THEN Len(seq) ELSE n)

\* "group by": each group's count(*).
SourceKey(r) == r.source
DayKey(r) == (r.ts \div DayLen) * DayLen

CountBySource(S) ==
    [g \in {SourceKey(r) : r \in S} |-> Cardinality({r \in S : SourceKey(r) = g})]

CountByDay(S) ==
    [g \in {DayKey(r) : r \in S} |-> Cardinality({r \in S : DayKey(r) = g})]

RECURSIVE Total(_)
Total(f) ==
    IF DOMAIN f = {} THEN 0
    ELSE LET g == CHOOSE x \in DOMAIN f : TRUE
         IN  f[g] + Total([h \in DOMAIN f \ {g} |-> f[h]])

\* The n largest groups ("order by n desc limit n"); which of several equal
\* groups stay is the store's choice.
RECURSIVE LargestGroups(_, _)
LargestGroups(f, n) ==
    IF Cardinality(DOMAIN f) <= n THEN f
    ELSE LET g == CHOOSE x \in DOMAIN f : \A y \in DOMAIN f : f[x] <= f[y]
         IN  LargestGroups([h \in DOMAIN f \ {g} |-> f[h]], n)

(***************************************************************************)
(* The filter composer, app.py lines 114-123, and the SQL text of the      *)
(* queries.                                                                *)
(***************************************************************************)
SourceFilteredAnySel(srcs, sel) == sel # <<>>

\* Line 116: sel_src and len(sel_src) != len(sources)
SourceFiltered(srcs, sel) == sel # <<>> /\ Len(sel) # Len(srcs)

ComposeWhere(srcs, sel, qt) ==
    <<WindowClause>>
        \o (IF SourceFiltered(srcs, sel) THEN <<SourceClause>> ELSE <<>>)
        \o (IF qt # "" THEN <<TextClause>> ELSE <<>>)

ComposeParamsWeek(d, srcs, sel, qt) ==
    ("days" :> "7 day")
        @@ (IF SourceFiltered(srcs, sel) THEN "src" :> sel ELSE EmptyMap)
        @@ (IF qt # "" THEN "q" :> ("%" \o lower(qt) \o "%") ELSE EmptyMap)

ComposeParams(d, srcs, sel, qt) ==
    ("days" :> (IntToStr(d) \o " day"))
        @@ (IF SourceFiltered(srcs, sel) THEN "src" :> sel ELSE EmptyMap)
        @@ (IF qt # "" THEN "q" :> ("%" \o lower(qt) \o "%") ELSE EmptyMap)

RECURSIVE Join(_, _)
Join(sep, l) ==
    IF l = <<>> THEN ""
    ELSE IF Len(l) = 1 THEN l[1]
    ELSE l[1] \o sep \o Join(sep, Tail(l))

SourcesSql == "select distinct source from items order by 1"

KpiSql(w) ==
    "select count(*)::int as n_items, round(avg(trend_score)::numeric,3) as avg_score from items where " \o w

TopSql(w) ==
    "select ts, source, title, url, trend_score from items where " \o w
        \o " order by trend_score desc limit 100"

BySrcSql(w) ==
    "select source, count(*)::int as n from items where " \o w \o " group by 1 order by n desc"

ByDaySql(w) ==
    "select date_trunc('day', ts) as day, count(*)::int as n from items where " \o w
        \o " group by 1 order by 1"

BuildSqlInline(w, prm) ==
    LET v == Join(" AND ", w) \o (IF "q" \in DOMAIN prm THEN " /* " \o prm["q"] \o " */" ELSE "")
    IN  [kpi |-> KpiSql(v), top |-> TopSql(v), by_src |-> BySrcSql(v), by_day |-> ByDaySql(v)]

\* sql_where and the four f-strings: only the joined clauses are interpolated.
BuildSql(w, prm) ==
    LET sql_where == Join(" AND ", w)
    IN  [kpi |-> KpiSql(sql_where), top |-> TopSql(sql_where),
         by_src |-> BySrcSql(sql_where), by_day |-> ByDaySql(sql_where)]

WByDaySql ==
    "select date_trunc('day', ts) as day, count(*)::int as n from items where ts >= now() - interval '7 days' group by 1 order by 1;"

WBySrcSql ==
    "select source, count(*)::int as n from items where ts >= now() - interval '7 days' group by 1 order by n desc limit 10;"

WTopSql ==
    "select ts, source, title, url, trend_score from items where ts >= now() - interval '7 days' order by trend_score desc limit 20;"

\* The number after " limit " in a statement.
LimitOf(stmt) == StrToInt(BeforeStr(AfterStr(stmt, " limit "), ";"))

\* The store's answer to each kind of statement at store time t.
RunKpi(tbl, stmt, prm, t) == KpiOf(Selected(tbl, stmt, prm, t))
RunTop(tbl, stmt, prm, t) == Limit(OrderByScore(Selected(tbl, stmt, prm, t)), LimitOf(stmt))
RunBySrc(tbl, stmt, prm, t) ==
    LET g == CountBySource(Selected(tbl, stmt, prm, t))
    IN  IF Contains(stmt, " limit ") THEN LargestGroups(g, LimitOf(stmt)) ELSE g
RunByDay(tbl, stmt, prm, t) == CountByDay(Selected(tbl, stmt, prm, t))

(***************************************************************************)
(* Initial states.                                                         *)
(***************************************************************************)
Opt(n, vals) == {EmptyMap} \cup {n :> v : v \in vals}

HostVal == "db.example"
UserVal == "ro_user"
PwdVal == "p@ss w"
UrlVal == "postgresql://u:p@h.example:6543/postgres?sslmode=require"
UrlPsycopgVal == "postgresql+psycopg://u:p@h2.example/postgres"

AppSecrets ==
    {h @@ u @@ p @@ prt @@ rest :
        h \in Opt("DB_HOST", {Str(" "), Str(HostVal)}),
        u \in Opt("DB_USER", {Str(""), Str(UserVal)}),
        p \in Opt("DB_PASSWORD", {Str(""), Str(PwdVal)}),
        prt \in Opt("DB_PORT", {Num(5432)}),
        rest \in {EmptyMap, ("DB_NAME" :> Str("trends")) @@ ("DB_SSLMODE" :> Str(" "))}}

AppEnv ==
    {h @@ v @@ u :
        h \in Opt("DB_HOST", {HostVal}),
        v \in Opt("PGURL_VIEW", {" ", UrlVal}),
        u \in Opt("PGURL", {UrlPsycopgVal})}

WeeklyEnv ==
    {v @@ u @@ k @@ t @@ f :
        v \in Opt("PGURL_VIEW", {"", UrlVal}),
        u \in Opt("PGURL", {UrlPsycopgVal}),
        k \in Opt("SENDGRID_API_KEY", {"", "SG.key"}),
        t \in Opt("REPORT_TO_EMAIL", {"to@example.com"}),
        f \in Opt("REPORT_FROM_EMAIL", {"from@example.com"})}

Tables == {{}, Fixture}

\* Every list of distinct elements of a list, in any order.
SubLists(l) ==
    LET S == {l[i] : i \in 1..Len(l)}
    IN  UNION {{q \in [1..k -> S] : \A i, j \in 1..k : i # j => q[i] # q[j]} :
                 k \in 0..Len(l)}

SourceLists == {<<>>, <<"hn">>, <<"reddit">>, <<"hn", "reddit">>}

SearchTexts == Strs({"a", "A", "%", "_"}, MaxQLen)

Fresh0 ==
    /\ clock = 0 /\ runs = 1 /\ out = <<>>
    /\ host = "" /\ port = 0 /\ name = "" /\ user = "" /\ pwd_raw = "" /\ ssl = ""
    /\ PGURL = "" /\ engine = ""
    /\ cache = <<>> /\ qlog = <<>>
    /\ checkouts = 0 /\ released = 0 /\ storeQueries = 0 /\ connects = 0
    /\ where = <<>> /\ params = EmptyMap /\ sql = EmptyMap
    /\ matched = {} /\ kpi = NoDf /\ top = NoDf /\ by_src = NoDf /\ by_day = NoDf
    /\ pdf = NoPdf /\ posts = 0 /\ exit = ""

NoInputs == days = 0 /\ sources = <<>> /\ sel_src = <<>> /\ qtext = ""

\* Either script about to run its first line.
Init ==
    /\ Fresh0 /\ NoInputs
    /\ pc = "start"
    /\ now = T0
    /\ dbUp \in BOOLEAN
    /\ items \in Tables
    /\ \/ script = "app" /\ lazyAnn \in BOOLEAN /\ secrets \in AppSecrets /\ env \in AppEnv
       \/ script = "weekly" /\ lazyAnn = FALSE /\ secrets = EmptyMap /\ env \in WeeklyEnv

\* The dashboard past its widgets (line 112) with drawn widget values, or the
\* report past its connection set-up (line 18), over a drawn table and time.
InitCompose ==
    /\ Fresh0
    /\ now \in {T0, T0 + 1}
    /\ dbUp = TRUE
    /\ items \in Tables
    /\ lazyAnn = TRUE
    /\ secrets = EmptyMap
    /\ env = ("PGURL" :> UrlPsycopgVal)
    /\ \/ /\ script = "app" /\ pc = "composing"
          /\ days \in Days
          /\ sources \in SourceLists
          /\ sel_src \in SubLists(sources)
          /\ qtext \in SearchTexts
       \/ /\ script = "weekly" /\ pc = "w_configured"
          /\ NoInputs

(***************************************************************************)
(* The dashboard script, app.py, as written.                               *)
(***************************************************************************)
RECURSIVE AfterLast(_, _)
AfterLast(s, m) == IF Contains(s, m) THEN AfterLast(AfterStr(s, m), m) ELSE s

\* Lines 56-61: urlsplit(...).netloc, its part after the last "@", and the
\* host and port the pattern takes from it (-1: no port).
NetLoc(url) == BeforeStr(BeforeStr(AfterStr(url, "://"), "/"), "?")
HostPart(url) == strip(AfterLast(NetLoc(url), "@"))
ParsedHost(url) == BeforeStr(HostPart(url), ":")
ParsedPort(url) ==
    IF Contains(HostPart(url), ":") THEN StrToInt(AfterStr(HostPart(url), ":")) ELSE -1

\* Lines 17-31.
Configure ==
    /\ script = "app" /\ pc = "start"
    /\ LET h == Get("DB_HOST", "")
           prt == StrToInt(Or(Get("DB_PORT", "6543"), "6543"))
           nm == Or(Get("DB_NAME", "postgres"), "postgres")
           u == Or(Get("DB_USER", "analytics_ro"), "analytics_ro")
           p == Get("DB_PASSWORD", "")
           s == Or(Get("DB_SSLMODE", "require"), "require")
       IN  /\ host' = h /\ port' = prt /\ name' = nm /\ user' = u /\ pwd_raw' = p /\ ssl' = s
           /\ IF CredentialsPresent(h, u, p)
              THEN /\ PGURL' = AssembleUrl(u, p, h, prt, nm, s)
                   /\ engine' = PGURL'
                   /\ out' = out
                   /\ pc' = "configured"
              ELSE /\ UNCHANGED <<PGURL, engine>>
                   /\ out' = Append(out, MissingDbMsg)
                   /\ pc' = "stopped"
    /\ UNCHANGED <<envVars, storeVars, filterVars, resultVars, reportVars, clock, runs>>

\* Lines 40-93: the debug block replaces PGURL, host, port and engine.  The
\* probe of line 86 hands psycopg the URL with the "+psycopg" scheme, which
\* the client library may refuse even when the store is up; either way the
\* except clause turns a failure into a message.
Debug ==
    /\ script = "app" /\ pc = "configured"
    /\ LET url == strip(Or(EnvGet("PGURL_VIEW"), EnvGet("PGURL")))
           forced == ForceDriver(url)
           plain == Replace(forced, "postgresql+psycopg", "postgresql")
       IN  IF url = ""
           THEN /\ PGURL' = url
                /\ out' = out \o <<DebugHeader, MissingUrlMsg>>
                /\ pc' = "stopped"
                /\ UNCHANGED <<host, port, engine, connects>>
           ELSE /\ PGURL' = forced
                /\ host' = ParsedHost(plain)
                /\ port' = ParsedPort(plain)
                /\ \E probe \in (IF dbUp THEN BOOLEAN ELSE {FALSE}) :
                      out' = out \o <<DebugHeader,
                                      "st.write: Engine URL (masked): " \o BeforeStr(forced, "@")
                                          \o ":***@" \o ParsedHost(plain),
                                      IF dbUp THEN "st.success: DNS OK"
                                              ELSE "st.error: DNS lookup failed",
                                      IF probe THEN "st.success: psycopg.connect(): SUCCESS"
                                               ELSE "st.error: psycopg.connect() failed">>
                /\ connects' = connects + 1
                /\ engine' = forced
                /\ pc' = "debugged"
    /\ UNCHANGED <<envVars, name, user, pwd_raw, ssl, cache, qlog, checkouts, released,
                   storeQueries, filterVars, resultVars, reportVars, clock, runs>>

\* Lines 95-96: the def evaluates its return annotation, pd.DataFrame, when
\* annotations are evaluated eagerly; app.py never imports pandas as pd.
DefineQ ==
    /\ script = "app" /\ pc = "debugged"
    /\ IF lazyAnn
       THEN out' = out /\ pc' = "q_defined"
       ELSE out' = Append(out, NameErrorPd) /\ pc' = "crashed"
    /\ UNCHANGED <<envVars, confVars, storeVars, filterVars, resultVars, reportVars, clock, runs>>

\* @st.cache_data(ttl=300): an entry younger than the time-to-live answers.
Fresh(key) == key \in DOMAIN cache /\ clock - cache[key].at < CacheTtl

\* q on a hit: the stored value, the store untouched.
QHit(key) ==
    /\ qlog' = Append(qlog, [key |-> key, at |-> clock, hit |-> TRUE, executed |-> 0, raised |-> ""])
    /\ UNCHANGED <<cache, checkouts, released, storeQueries, connects>>

\* q on a miss, lines 97-98: engine.begin() checks a connection out, then
\* pd.read_sql is looked up: the name pd is unbound, the with block releases
\* the connection and the NameError leaves q; nothing is stored.  With the
\* store down engine.begin() itself raises.
QMiss(key) ==
    /\ qlog' = Append(qlog, [key |-> key, at |-> clock, hit |-> FALSE, executed |-> 0,
                             raised |-> IF dbUp THEN NameErrorPd ELSE "OperationalError"])
    /\ checkouts' = IF dbUp THEN checkouts + 1 ELSE checkouts
    /\ released' = IF dbUp THEN released + 1 ELSE released
    /\ UNCHANGED <<cache, storeQueries, connects>>

\* Lines 100-112: the title, the window selectbox, q(distinct sources), then
\* the multiselect and the search box.
Controls ==
    /\ script = "app" /\ pc = "q_defined"
    /\ \E d \in Days : days' = d
    /\ LET key == <<SourcesSql, EmptyMap>>
       IN  IF Fresh(key)
           THEN /\ QHit(key)
                /\ sources' = cache[key].value
                /\ \E sel \in SubLists(sources') : sel_src' = sel
                /\ \E qt \in SearchTexts : qtext' = qt
                /\ out' = Append(out, "st.title: Daily Tech Trends")
                /\ pc' = "composing"
           ELSE /\ QMiss(key)
                /\ UNCHANGED <<sources, sel_src, qtext>>
                /\ out' = out \o <<"st.title: Daily Tech Trends",
                                   IF dbUp THEN NameErrorPd ELSE "OperationalError">>
                /\ pc' = "crashed"
    /\ UNCHANGED <<envVars, confVars, where, params, sql, resultVars, reportVars, clock, runs>>

\* A widget interaction or a page load runs the script again from the top:
\* module globals are rebound, the cache of q lives on.
Rerun ==
    /\ script = "app" /\ pc \in {"stopped", "crashed"}
    /\ runs < MaxRuns
    /\ runs' = runs + 1
    /\ \E dt \in {1, CacheTtl} : clock' = clock + dt
    /\ pc' = "start"
    /\ out' = <<>>
    /\ host' = "" /\ port' = 0 /\ name' = "" /\ user' = "" /\ pwd_raw' = "" /\ ssl' = ""
    /\ PGURL' = "" /\ engine' = ""
    /\ days' = 0 /\ sources' = <<>> /\ sel_src' = <<>> /\ qtext' = ""
    /\ where' = <<>> /\ params' = EmptyMap /\ sql' = EmptyMap
    /\ UNCHANGED <<envVars, storeVars, resultVars, reportVars>>

(***************************************************************************)
(* Lines 114-189 applied to widget values.                                 *)
(***************************************************************************)
\* Lines 114-121.
Compose ==
    /\ script = "app" /\ pc = "composing"
    /\ where' = ComposeWhere(sources, sel_src, qtext)
    /\ params' = ComposeParams(days, sources, sel_src, qtext)
    /\ pc' = "composed"
    /\ UNCHANGED <<envVars, confVars, storeVars, days, sources, sel_src, qtext, sql,
                   resultVars, reportVars, clock, runs, out>>

\* Line 123 and the f-strings of lines 126-184.
BuildQueries ==
    /\ script = "app" /\ pc = "composed"
    /\ sql' = BuildSql(where, params)
    /\ pc' = "built"
    /\ UNCHANGED <<envVars, confVars, storeVars, days, sources, sel_src, qtext, where, params,
                   resultVars, reportVars, clock, runs, out>>

\* The store's answers to the four statements with their parameters.
Execute ==
    /\ script = "app" /\ pc = "built"
    /\ matched' = Selected(items, sql.top, params, now)
    /\ kpi' = RunKpi(items, sql.kpi, params, now)
    /\ top' = RunTop(items, sql.top, params, now)
    /\ by_src' = RunBySrc(items, sql.by_src, params, now)
    /\ by_day' = RunByDay(items, sql.by_day, params, now)
    /\ storeQueries' = storeQueries + 4
    /\ checkouts' = checkouts + 4
    /\ released' = released + 4
    /\ pc' = "executed"
    /\ UNCHANGED <<envVars, confVars, cache, qlog, connects, filterVars, reportVars,
                   clock, runs, out>>

\* Lines 134-137: the two KPI metrics (n_items or 0, avg_score or 0), then
\* datetime.utcnow(): app.py never imports datetime, so the run ends here and
\* lines 139-189 are not reached.
Render ==
    /\ script = "app" /\ pc = "executed"
    /\ out' = out \o <<"st.metric: Items=" \o IntToStr(kpi.n_items),
                       "st.metric: Avg trend score(e-3)="
                           \o IntToStr(IF kpi.avg_null THEN 0 ELSE kpi.avg_score),
                       NameErrorDatetime>>
    /\ pc' = "crashed"
    /\ UNCHANGED <<envVars, confVars, storeVars, filterVars, resultVars, reportVars,
                   clock, runs>>

(***************************************************************************)
(* The weekly report, make_weekly_report.py.                               *)
(***************************************************************************)
\* Lines 13-18.
WConfigure ==
    /\ script = "weekly" /\ pc = "start"
    /\ LET url == Or(EnvGet("PGURL_VIEW"), EnvGet("PGURL"))
       IN  IF url = ""
           THEN /\ exit' = SystemExitMsg
                /\ pc' = "exited"
                /\ UNCHANGED <<PGURL, engine>>
           ELSE /\ PGURL' = ForceDriver(url)
                /\ engine' = PGURL'
                /\ exit' = exit
                /\ pc' = "w_configured"
    /\ UNCHANGED <<envVars, host, port, name, user, pwd_raw, ssl, storeVars, filterVars,
                   resultVars, pdf, posts, clock, runs, out>>

\* fetch_df, lines 20-22: one checkout, one statement, the connection
\* released; a failure of the store is not caught.
FetchOk(stmt) ==
    /\ checkouts' = checkouts + 1
    /\ storeQueries' = storeQueries + 1
    /\ released' = released + 1
    /\ qlog' = Append(qlog, [key |-> <<stmt, EmptyMap>>, at |-> clock, hit |-> FALSE, executed |-> 1, raised |-> ""])
    /\ exit' = exit
    /\ UNCHANGED <<cache, connects>>

FetchFails(stmt) ==
    /\ qlog' = Append(qlog, [key |-> <<stmt, EmptyMap>>, at |-> clock, hit |-> FALSE, executed |-> 0,
                             raised |-> "OperationalError"])
    /\ exit' = "Traceback: OperationalError"
    /\ pc' = "crashed"
    /\ UNCHANGED <<cache, connects, checkouts, storeQueries, released, resultVars>>

\* Lines 25-30.
WFetchByDay ==
    /\ script = "weekly" /\ pc = "w_configured"
    /\ IF dbUp
       THEN /\ FetchOk(WByDaySql)
            /\ by_day' = RunByDay(items, WByDaySql, EmptyMap, now)
            /\ pc' = "w_by_day"
            /\ UNCHANGED <<matched, kpi, top, by_src>>
       ELSE FetchFails(WByDaySql)
    /\ UNCHANGED <<envVars, confVars, filterVars, pdf, posts, clock, runs, out>>

\* Lines 31-37.
WFetchBySrc ==
    /\ script = "weekly" /\ pc = "w_by_day"
    /\ IF dbUp
       THEN /\ FetchOk(WBySrcSql)
            /\ by_src' = RunBySrc(items, WBySrcSql, EmptyMap, now)
            /\ pc' = "w_by_src"
            /\ UNCHANGED <<matched, kpi, top, by_day>>
       ELSE FetchFails(WBySrcSql)
    /\ UNCHANGED <<envVars, confVars, filterVars, pdf, posts, clock, runs, out>>

\* Lines 38-44.
WFetchTop ==
    /\ script = "weekly" /\ pc = "w_by_src"
    /\ IF dbUp
       THEN /\ FetchOk(WTopSql)
            /\ top' = RunTop(items, WTopSql, EmptyMap, now)
            /\ matched' = Selected(items, WTopSql, EmptyMap, now)
            /\ pc' = "w_top"
            /\ UNCHANGED <<kpi, by_src, by_day>>
       ELSE FetchFails(WTopSql)
    /\ UNCHANGED <<envVars, confVars, filterVars, pdf, posts, clock, runs, out>>

\* Lines 46-95: the two charts, the table, doc.build, the log line.
WRender ==
    /\ script = "weekly" /\ pc = "w_top"
    /\ pdf' = [written |-> TRUE, path |-> "weekly_trends_<today>.pdf", rows |-> Len(top)]
    /\ out' = Append(out, "[report] wrote weekly_trends_<today>.pdf")
    /\ pc' = "w_pdf"
    /\ UNCHANGED <<envVars, confVars, storeVars, filterVars, resultVars, posts, exit, clock, runs>>

\* What requests.post can do: answer with a status, or raise.
HttpOutcomes == {"202", "401", "500", "Timeout", "ConnectionError"}
HttpRaises == {"Timeout", "ConnectionError"}

\* Lines 97-123.
WEmail ==
    /\ script = "weekly" /\ pc = "w_pdf"
    /\ IF EnvGet("SENDGRID_API_KEY") # "" /\ EnvGet("REPORT_TO_EMAIL") # ""
          /\ EnvGet("REPORT_FROM_EMAIL") # ""
       THEN \E o \in HttpOutcomes :
                /\ posts' = posts + 1
                /\ IF o \in HttpRaises
                   THEN /\ out' = out
                        /\ exit' = "Traceback: requests.exceptions." \o o
                        /\ pc' = "crashed"
                   ELSE /\ out' = Append(out, "[email] status: " \o o)
                        /\ exit' = "0"
                        /\ pc' = "done"
       ELSE /\ posts' = posts
            /\ out' = Append(out, "[email] skipped (missing SENDGRID_API_KEY or emails)")
            /\ exit' = "0"
            /\ pc' = "done"
    /\ UNCHANGED <<envVars, confVars, storeVars, filterVars, resultVars, pdf, clock, runs>>

(***************************************************************************)
(* Specifications.                                                         *)
(***************************************************************************)
Next ==
    \/ Configure \/ Debug \/ DefineQ \/ Controls \/ Rerun
    \/ WConfigure \/ WFetchByDay \/ WFetchBySrc \/ WFetchTop \/ WRender \/ WEmail

Spec == Init /\ [][Next]_vars

NextCompose ==
    \/ Compose \/ BuildQueries \/ Execute \/ Render
    \/ WFetchByDay \/ WFetchBySrc \/ WFetchTop

SpecCompose == InitCompose /\ [][NextCompose]_vars

(***************************************************************************)
(* Properties.                                                             *)
(***************************************************************************)
SetOf(l) == {l[i] : i \in 1..Len(l)}
Composed == script = "app" /\ pc \in {"composed", "built", "executed"}
Built == script = "app" /\ pc \in {"built", "executed"}
Executed == script = "app" /\ pc = "executed"
Ended == pc \in {"stopped", "crashed", "done", "exited"}

InWindow(r) == r.ts >= now - days * DayLen
InSelection(r) == r.source \in SetOf(sel_src)
TextPasses(r) == TextClause \in SetOf(where) => Holds(TextClause, r, params, now)
SourcePasses(r) == SourceClause \in SetOf(where) => InSelection(r)

IsSubstringMatch(r) ==
    \/ Contains(lower(r.title), lower(qtext))
    \/ (r.has_body /\ Contains(lower(r.body), lower(qtext)))

\* C2: with an empty search box no text predicate is added; with a search
\* text s, a row passes the text predicate exactly when lower(s) is a
\* substring of its lower-cased title or body.
C2_TextIsSubstring ==
    Executed =>
        /\ qtext = "" => TextClause \notin SetOf(where)
        /\ qtext # "" =>
              /\ TextClause \in SetOf(where)
              /\ \A r \in items :
                    (InWindow(r) /\ SourcePasses(r)) => (r \in matched <=> IsSubstringMatch(r))

WeekRows == {r \in items : r.ts >= now - 7 * DayLen}

Probes ==
    {<<d, sl[1], sl[2], qt>> :
        d \in {1, 30},
        sl \in {<<<<>>, <<>>>>, <<<<"hn">>, <<"hn">>>>,
                <<<<"hn", "reddit">>, <<"hn">>>>, <<<<"hn", "reddit">>, <<"reddit">>>>},
        qt \in {"", "a", "_%"}}

ProbeSql(x) == BuildSql(ComposeWhere(x[2], x[3], x[4]), ComposeParams(x[1], x[2], x[3], x[4]))

\* C4: the four SQL texts are those of any other input with the same clause
\* presence, whatever the values; the values are in the parameter map only:
\* days, src when the source clause is present, q when the text clause is.
C4_SqlTextFromClausePresence ==
    Built =>
        /\ \A x \in Probes :
              (SourceFiltered(x[2], x[3]) = SourceFiltered(sources, sel_src)
                  /\ (x[4] = "") = (qtext = ""))
              => ProbeSql(x) = sql
        /\ DOMAIN params = {"days"} \cup (IF SourceFiltered(sources, sel_src) THEN {"src"} ELSE {})
                               \cup (IF qtext # "" THEN {"q"} ELSE {})
        /\ "src" \in DOMAIN params => params["src"] = sel_src
        /\ "q" \in DOMAIN params => params["q"] = "%" \o lower(qtext) \o "%"

C4_Witness ==
    /\ script = "app" /\ pc = "built"
    /\ qtext = "A_" /\ sources = <<"hn", "reddit">> /\ sel_src = <<"reddit">>
    /\ Contains(sql.kpi, SourceClause) /\ Contains(sql.kpi, TextClause)

\* On one table at one instant the four statements agree: the KPI count is
\* the number of rows the top-items statement matches and the total of either
\* grouping.
SnapshotAggregatesAgree ==
    Executed =>
        /\ kpi.n_items = Cardinality(matched)
        /\ Len(top) = (IF kpi.n_items < 100 THEN kpi.n_items ELSE 100)
        /\ Total(by_src) = kpi.n_items
        /\ Total(by_day) = kpi.n_items

IsBlank(s) == strip(s) = ""

\* A dashboard setting is missing or blank where _get looks for it: the
\* secret when there is one, else the environment.
Missing(n) ==
    IF n \in DOMAIN secrets THEN secrets[n].t = "str" /\ IsBlank(secrets[n].v)
    ELSE n \notin DOMAIN env \/ IsBlank(env[n])

EnvSet(n) == n \in DOMAIN env /\ ~IsBlank(env[n])
UrlGiven == EnvSet("PGURL_VIEW") \/ EnvSet("PGURL")
ComponentsGiven == ~Missing("DB_HOST") /\ ~Missing("DB_PASSWORD")
\* The report's test of line 14: None and "" are unset, nothing is stripped.
WeeklyUrlSet == EnvGet("PGURL_VIEW") # "" \/ EnvGet("PGURL") # ""
NoStoreContact == storeQueries = 0 /\ checkouts = 0 /\ connects = 0
Shown(line) == \E i \in 1..Len(out) : out[i] = line
\* A dashboard run that got past its configuration checks and ended, the
\* store answering throughout.
AppRanPastConfig == script = "app" /\ dbUp /\ Ended /\ pc # "stopped"

C6_CacheContract ==
    (script = "app" /\ dbUp) =>
        /\ checkouts = released
        /\ \A j \in 1..Len(qlog) :
              LET c == qlog[j]
                  ran == {i \in 1..(j - 1) : qlog[i].key = c.key /\ qlog[i].executed > 0}
                  warm == \E i \in ran : (\A k \in ran : k <= i) /\ c.at - qlog[i].at < CacheTtl
              IN  /\ warm => (c.hit /\ c.executed = 0)
                  /\ ~warm => (~c.hit /\ c.executed = 1 /\ c.key \in DOMAIN cache)

\* C7: when a pre-built URL is set the dashboard starts and queries through
\* it; when only the components are set it starts and queries through the URL
\* assembled from them.
C7_EitherFormStarts ==
    (script = "app" /\ pc # "start") =>
        /\ (UrlGiven \/ ComponentsGiven) => pc # "stopped"
        /\ (UrlGiven /\ pc # "configured") =>
              engine = ForceDriver(strip(Or(EnvGet("PGURL_VIEW"), EnvGet("PGURL"))))
        /\ (~UrlGiven /\ ComponentsGiven) =>
              engine = AssembleUrl(user, pwd_raw, host, port, name, ssl)

HaltedOnMissingDb == pc = "stopped" /\ out = <<MissingDbMsg>> /\ NoStoreContact
HaltedOnMissingUrl ==
    /\ pc = "exited" /\ exit = SystemExitMsg
    /\ out = <<>> /\ pdf = NoPdf /\ posts = 0 /\ NoStoreContact

\* C8 as stated: the dashboard halts on its diagnostic, before any store
\* contact, when DB_HOST, DB_USER or DB_PASSWORD is missing or blank; the
\* report exits, nothing queried, written or sent, when no URL is set.
C8_AnyMissingCredentialHalts ==
    /\ (script = "app" /\ pc # "start"
            /\ (Missing("DB_HOST") \/ Missing("DB_USER") \/ Missing("DB_PASSWORD")))
          => HaltedOnMissingDb
    /\ (script = "weekly" /\ pc # "start" /\ ~WeeklyUrlSet) => HaltedOnMissingUrl

\* C8, amended: the dashboard halts on its diagnostic, before any store
\* contact and with nothing else shown, when DB_HOST or DB_PASSWORD is missing
\* or blank (a missing or blank DB_USER is replaced by analytics_ro and halts
\* nothing); the report exits with SystemExit, nothing queried, written or
\* sent, when neither PGURL_VIEW nor PGURL is set.
C8_MissingConfigHalts ==
    /\ (script = "app" /\ pc # "start" /\ (Missing("DB_HOST") \/ Missing("DB_PASSWORD")))
          => HaltedOnMissingDb
    /\ (script = "app" /\ pc # "start" /\ Missing("DB_USER")) => user = "analytics_ro"
    /\ (script = "app" /\ pc # "start"
            /\ Missing("DB_USER") /\ ~Missing("DB_HOST") /\ ~Missing("DB_PASSWORD"))
          => (pc # "stopped" \/ out # <<MissingDbMsg>>)
    /\ (script = "weekly" /\ pc # "start" /\ ~WeeklyUrlSet) => HaltedOnMissingUrl

C8_Witness ==
    /\ script = "app" /\ HaltedOnMissingDb
    /\ Missing("DB_PASSWORD") /\ ~Missing("DB_HOST") /\ ~Missing("DB_USER") /\ UrlGiven

MailConfigured ==
    EnvGet("SENDGRID_API_KEY") # "" /\ EnvGet("REPORT_TO_EMAIL") # "" /\ EnvGet("REPORT_FROM_EMAIL") # ""

\* C9: the PDF is written before any mail request; without the mail settings
\* the mail is skipped and the run completes; an attempted mail, whatever the
\* HTTP call does, is followed by an [email] log line and the run completes
\* with the PDF in place.
C9_EmailFailuresLogged ==
    script = "weekly" =>
        /\ posts > 0 => pdf.written
        /\ (pdf.written /\ Ended) =>
              /\ pc = "done" /\ exit = "0"
              /\ MailConfigured =>
                    posts = 1 /\ StartsWith(out[Len(out)], "[email] status:")
              /\ ~MailConfigured =>
                    posts = 0 /\ StartsWith(out[Len(out)], "[email] skipped")

\* C10: a dashboard run over an empty result set, the store up, ends without an error, with
\* item count 0 and average 0 shown and the "no data" message of each of the
\* three views.
C10_EmptyResultsRender ==
    (AppRanPastConfig /\ items = {}) =>
        /\ Shown("st.metric: Items=0")
        /\ Shown("st.metric: Avg trend score(e-3)=0")
        /\ Shown("st.info: No items match your filters.")
        /\ Shown("st.info: No data for selected window/sources.")
        /\ Shown("st.info: No daily data.")
        /\ ~Shown(NameErrorPd) /\ ~Shown(NameErrorDatetime) /\ ~Shown("OperationalError")

====
